---------------------------- MODULE Spec2Model ----------------------------
(***************************************************************************)
(* Model of the starfield-data pipeline:                                   *)
(*   restructure.py  normalizes starfield_data_updated.json to galaxy.json *)
(*   create_db.py    loads resources.json and galaxy.json into sf.db       *)
(* Text is a sequence of one-character strings, so that the string         *)
(* operations of the source (lower, split, join, replace, strip, int,      *)
(* float, ordinal comparison) are computed and not assumed.                *)
(***************************************************************************)
EXTENDS Integers, Sequences, FiniteSets, TLC

VARIABLES
    rawFile,        \* starfield_data_updated.json: the (system, body, data) entries in file order
    catalog,        \* resources.json: the list of resource records
    galaxyFile,     \* galaxy.json: Absent, or the list of body records
    dbFile,         \* sf.db as committed on disk: Absent, or the tables
    galaxy,         \* restructure.main: the list `galaxy` being built
    conn,           \* create_db: the tables as the open connection sees them (pending rows included)
    shortname_map,  \* create_db: the dict returned by insert_resources
    out,            \* lines printed to standard output, both scripts
    pc,             \* position of the running script
    exc,            \* "none", or the exception that ended the running script
    idx,            \* index of the next element of the loop in progress
    run,            \* number of the pipeline run in progress
    firstRun        \* files left by the first pipeline run, once it has ended

vars == <<rawFile, catalog, galaxyFile, dbFile, galaxy, conn, shortname_map,
          out, pc, exc, idx, run, firstRun>>

-----------------------------------------------------------------------------
(* Characters, in ascending code point order. *)

AsciiOrder ==
    <<" ", "%", "(", ")", "-", ".", "1", "4", "7",
      "A", "B", "D", "F", "I", "R", "X",
      "a", "b", "d", "f", "g", "h", "i", "r", "x">>

Chars == {AsciiOrder[k] : k \in DOMAIN AsciiOrder}

Ord(c) == CHOOSE k \in DOMAIN AsciiOrder : AsciiOrder[k] = c

Digits == {"1", "4", "7"}

DigitVal(c) == CASE c = "1" -> 1 [] c = "4" -> 4 [] c = "7" -> 7

\* str.lower on one character
LowerChar(c) ==
    CASE c = "A" -> "a" [] c = "B" -> "b" [] c = "D" -> "d" [] c = "F" -> "f"
      [] c = "I" -> "i" [] c = "R" -> "r" [] c = "X" -> "x" [] OTHER -> c

\* str.lower
Lower(s) == [k \in DOMAIN s |-> LowerChar(s[k])]

\* ordinal comparison of two strings (Python str.__lt__)
RECURSIVE StrLt(_, _)
StrLt(s, t) ==
    IF t = <<>> THEN FALSE
    ELSE IF s = <<>> THEN TRUE
    ELSE IF Ord(Head(s)) # Ord(Head(t)) THEN Ord(Head(s)) < Ord(Head(t))
    ELSE StrLt(Tail(s), Tail(t))

\* comparison of two tuples of strings (the keys attrgetter returns)
RECURSIVE KeyLt(_, _)
KeyLt(a, b) ==
    IF b = <<>> THEN FALSE
    ELSE IF a = <<>> THEN TRUE
    ELSE IF Head(a) # Head(b) THEN StrLt(Head(a), Head(b))
    ELSE KeyLt(Tail(a), Tail(b))

\* c in s
Contains(s, c) == \E k \in DOMAIN s : s[k] = c

\* s.split(c): every occurrence of c separates two tokens, empty tokens kept
RECURSIVE Split(_, _)
Split(s, c) ==
    IF ~Contains(s, c) THEN <<s>>
    ELSE LET k == CHOOSE j \in DOMAIN s : s[j] = c /\ \A m \in 1..(j - 1) : s[m] # c
         IN  <<SubSeq(s, 1, k - 1)>> \o Split(SubSeq(s, k + 1, Len(s)), c)

\* c.join(parts)
RECURSIVE Join(_, _)
Join(parts, c) ==
    IF parts = <<>> THEN <<>>
    ELSE IF Len(parts) = 1 THEN parts[1]
    ELSE parts[1] \o <<c>> \o Join(Tail(parts), c)

\* s.replace(c, "")
RECURSIVE Remove(_, _)
Remove(s, c) ==
    IF s = <<>> THEN <<>>
    ELSE IF Head(s) = c THEN Remove(Tail(s), c)
    ELSE <<Head(s)>> \o Remove(Tail(s), c)

\* s.strip(): the space is the only whitespace character of Chars
RECURSIVE Strip(_)
Strip(s) ==
    IF s = <<>> THEN <<>>
    ELSE IF Head(s) = " " THEN Strip(Tail(s))
    ELSE IF s[Len(s)] = " " THEN Strip(SubSeq(s, 1, Len(s) - 1))
    ELSE s

\* value of a sequence of digits
RECURSIVE DigitsVal(_)
DigitsVal(s) ==
    IF s = <<>> THEN 0 ELSE 10 * DigitsVal(SubSeq(s, 1, Len(s) - 1)) + DigitVal(s[Len(s)])

AllDigits(s) == \A k \in DOMAIN s : s[k] \in Digits

\* decimal value num * 10^(-exp), without trailing zero digits
RECURSIVE Dec(_, _)
Dec(num, exp) ==
    IF exp > 0 /\ num % 10 = 0 THEN Dec(num \div 10, exp - 1)
    ELSE [num |-> num, exp |-> exp]

\* a leading minus sign, and the text after it
IsNeg(t) == t # <<>> /\ Head(t) = "-"

Unsigned(t) == IF IsNeg(t) THEN Tail(t) ELSE t

NoNumber == [ok |-> FALSE, val |-> 0]

PyIntDigits(d, neg) ==
    IF d # <<>> /\ AllDigits(d)
    THEN [ok |-> TRUE, val |-> IF neg THEN 0 - DigitsVal(d) ELSE DigitsVal(d)]
    ELSE NoNumber

\* int(s) for a str s: surrounding whitespace ignored, optional sign, digits.
\* ok = FALSE stands for ValueError.
PyIntStr(s) == PyIntDigits(Unsigned(Strip(s)), IsNeg(Strip(s)))

PyFloatDigits(ip, fp, n, neg) ==
    IF n <= 2 /\ AllDigits(ip) /\ AllDigits(fp) /\ Len(ip) + Len(fp) > 0
    THEN [ok |-> TRUE,
          val |-> Dec(IF neg THEN 0 - DigitsVal(ip \o fp) ELSE DigitsVal(ip \o fp), Len(fp))]
    ELSE [ok |-> FALSE, val |-> Dec(0, 0)]

PyFloatParts(parts, neg) ==
    PyFloatDigits(parts[1], IF Len(parts) = 2 THEN parts[2] ELSE <<>>, Len(parts), neg)

\* float(s) for a str s: surrounding whitespace ignored, optional sign, digits
\* with at most one point and at least one digit.  ok = FALSE stands for
\* ValueError.  (Chars has no "e", "n" or "_": exponents, inf and nan cannot
\* be written.)
PyFloatStr(s) == PyFloatParts(Split(Unsigned(Strip(s)), "."), IsNeg(Strip(s)))

\* x / 100.0
DivHundred(x) == Dec(x.num, x.exp + 2)

-----------------------------------------------------------------------------
(* list.sort(key=...): a stable sort.  Items are [key, val] pairs, the key a *)
(* tuple of strings.                                                        *)

RECURSIVE InsertByKey(_, _)
InsertByKey(sorted, item) ==
    IF sorted = <<>> THEN <<item>>
    ELSE IF KeyLt(item.key, Head(sorted).key) THEN <<item>> \o sorted
    ELSE <<Head(sorted)>> \o InsertByKey(Tail(sorted), item)

RECURSIVE SortItems(_)
SortItems(items) ==
    IF items = <<>> THEN <<>>
    ELSE InsertByKey(SortItems(SubSeq(items, 1, Len(items) - 1)), items[Len(items)])

Vals(items) == [k \in DOMAIN items |-> items[k].val]

\* sort(key=attrgetter("name"))
SortByName(s) == Vals(SortItems([k \in DOMAIN s |-> [key |-> <<s[k].name>>, val |-> s[k]]]))

\* sort(key=attrgetter("system", "name"))
SortBySystemName(s) ==
    Vals(SortItems([k \in DOMAIN s |-> [key |-> <<s[k].system, s[k].name>>, val |-> s[k]]]))

\* list.sort() of a list of strings
SortStrs(s) == Vals(SortItems([k \in DOMAIN s |-> [key |-> <<s[k]>>, val |-> s[k]]]))

-----------------------------------------------------------------------------
(* JSON values of the raw file: a string, a whole number, null, or some     *)
(* other non-string value (a nested list).                                  *)

JStr(s) == [t |-> "str", s |-> s, n |-> 0]
JInt(n) == [t |-> "int", s |-> <<>>, n |-> n]
JNull == [t |-> "null", s |-> <<>>, n |-> 0]
JList == [t |-> "list", s |-> <<>>, n |-> 0]

\* a file is <<>> when it does not exist, <<content>> when it does
Absent == <<>>

File(content) == <<content>>

\* one printed line of restructure.py: which check, the raw value, the body
Diag(kind, e, v) == [kind |-> kind, raw |-> v, system |-> e.system, body |-> e.name]

NoStep == [exc |-> "none", out |-> <<>>]

\* what a conversion yields as a statement: ok = FALSE raises ValueError
Raising(r) == [exc |-> IF r.ok THEN "none" ELSE "ValueError", val |-> r.val, out |-> <<>>]

\* int(v): ValueError for a str that is no integer literal, TypeError for
\* null and lists
PyInt(v) ==
    CASE v.t = "str" -> Raising(PyIntStr(v.s))
      [] v.t = "int" -> [exc |-> "none", val |-> v.n, out |-> <<>>]
      [] OTHER -> [exc |-> "TypeError", val |-> 0, out |-> <<>>]

\* try: ... except ValueError: print(...); value = dflt
ExceptValueError(r, dflt, diag) ==
    IF r.exc = "ValueError" THEN [exc |-> "none", val |-> dflt, out |-> <<diag>>] ELSE r

\* restructure.py 115-121, 123-129, 133-139:
\*   try: body.f = int(body_data[f])  except ValueError: print(...); body.f = 0
IntOrZero(v, kind, e) == ExceptValueError(PyInt(v), 0, Diag(kind, e, v))

\* restructure.py 131: float(body_data["gravity"].replace("g", "").strip()),
\* outside any try
GravityOrOne(v) ==
    IF v.t # "str" THEN [exc |-> "none", val |-> Dec(1, 0), out |-> <<>>]
    ELSE [Raising(PyFloatStr(Strip(Remove(v.s, "g")))) EXCEPT
             !.exc = "none", !.val = IF @ = Dec(0, 0) THEN Dec(1, 0) ELSE @]

Gravity(v) ==
    IF v.t # "str" THEN [exc |-> "AttributeError", val |-> Dec(0, 0), out |-> <<>>]
    ELSE Raising(PyFloatStr(Strip(Remove(v.s, "g"))))

DefaultPlanetLength == 24

\* restructure.py 142-150:
\*   try: parts = pl.split(" "); body.planet_length = int(parts[0])
\*   except (ValueError, AttributeError): print(...); body.planet_length = 24
PlanetLengthLastToken(v, e) ==
    ExceptValueError(
        IF v.t = "str" THEN Raising(PyIntStr(Split(v.s, " ")[Len(Split(v.s, " "))]))
        ELSE Raising(NoNumber),
        DefaultPlanetLength, Diag("planet_length", e, v))

PlanetLength(v, e) ==
    ExceptValueError(
        IF v.t = "str" THEN Raising(PyIntStr(Split(v.s, " ")[1])) ELSE Raising(NoNumber),
        DefaultPlanetLength, Diag("planet_length", e, v))

\* restructure.py 113, 141, 152, 154: body_data[f].lower()
LowerField(v) ==
    IF v.t = "str" THEN [exc |-> "none", val |-> Lower(v.s), out |-> <<>>]
    ELSE [exc |-> "AttributeError", val |-> <<>>, out |-> <<>>]

NoBiome == [name |-> <<>>, coverage |-> Dec(0, 0)]

\* restructure.py 160-162: the entry has a "%"
\*   biome.name = " ".join(parts[0:-1])
\*   biome.coverage = float(parts[-1].replace("%", "")) / 100.0
BiomeOfZeroOnError(name, f) ==
    [exc |-> "none", skip |-> FALSE,
     val |-> [name |-> name, coverage |-> IF f.ok THEN DivHundred(f.val) ELSE Dec(0, 0)]]

BiomeOf(name, f) ==
    [exc |-> "none", skip |-> ~f.ok, val |-> [name |-> name, coverage |-> DivHundred(f.val)]]

BiomeOfParts(parts) ==
    BiomeOf(Join(SubSeq(parts, 1, Len(parts) - 1), " "),
            PyFloatStr(Remove(parts[Len(parts)], "%")))

\* restructure.py 157-170, one entry of body_data["biomes"]:
\* skip = TRUE is the except ValueError branch
Biome(v) ==
    IF v.t # "str" THEN [exc |-> "TypeError", skip |-> FALSE, val |-> NoBiome]
    ELSE IF Contains(v.s, "%") THEN BiomeOfParts(Split(v.s, " "))
    ELSE [exc |-> "none", skip |-> FALSE, val |-> [name |-> v.s, coverage |-> Dec(0, 0)]]

\* restructure.py 156-170: one pass of the loop over body_data["biomes"],
\* `done` the biomes and printed lines so far
BiomePass(done, b, diag) ==
    IF done.exc # "none" THEN done
    ELSE IF b.exc # "none" THEN [done EXCEPT !.exc = b.exc]
    ELSE IF b.skip THEN [done EXCEPT !.out = Append(@, diag)]
    ELSE [done EXCEPT !.val = Append(@, b.val)]

NoBiomes == [exc |-> "none", val |-> <<>>, out |-> <<>>]

RECURSIVE BiomeLoop(_, _, _)
BiomeLoop(list, e, done) ==
    IF list = <<>> THEN done
    ELSE BiomeLoop(Tail(list), e, BiomePass(done, Biome(Head(list)), Diag("biome", e, Head(list))))

\* body.biomes.sort(key=attrgetter("name")), and 187, 196 for the organics
SortedVal(r) == [r EXCEPT !.val = SortByName(@)]

\* restructure.py 156-172: the loop, then the sort
Biomes(list, e) == SortedVal(BiomeLoop(list, e, NoBiomes))

\* restructure.py 181-185 and 190-194, one entry:
\*   parts = dom.split("("); o.name = parts[0].strip()
\*   o.resource = parts[-1].replace(")", "").strip()
OrganicOfPartsFirst(parts) ==
    [name |-> Strip(parts[1]),
     resource |-> Strip(Remove(parts[IF Len(parts) > 1 THEN 2 ELSE 1], ")"))]

OrganicOfParts(parts) ==
    [name |-> Strip(parts[1]), resource |-> Strip(Remove(parts[Len(parts)], ")"))]

Organic(v) == OrganicOfParts(Split(v.s, "("))

\* restructure.py 180-187 and 189-196: the loop, then sort(key=attrgetter("name"))
Organics(list) ==
    IF \E k \in DOMAIN list : list[k].t # "str"
    THEN [exc |-> "AttributeError", val |-> <<>>, out |-> <<>>]
    ELSE SortedVal([exc |-> "none", val |-> [k \in DOMAIN list |-> Organic(list[k])],
                    out |-> <<>>])

\* the statements of one loop body in order: the first exception ends it, the
\* lines printed before it stay printed
RECURSIVE RunSteps(_, _)
RunSteps(steps, done) ==
    IF steps = <<>> THEN done
    ELSE IF Head(steps).exc # "none"
    THEN [exc |-> Head(steps).exc, out |-> done.out \o Head(steps).out]
    ELSE RunSteps(Tail(steps), [exc |-> "none", out |-> done.out \o Head(steps).out])

Outcome(r, body) == [exc |-> r.exc, out |-> r.out, body |-> body]

\* restructure.py 110-198: the Body built from the converted fields
BodyOf(e, atmosphere, fauna, flora, gravity, hab_rank, magnetosphere, planet_length, temperature, water, biomes, domesticable, gatherable) ==
    Outcome(RunSteps(<<atmosphere, fauna, flora, gravity, hab_rank, magnetosphere,
                       planet_length, temperature, water, biomes, domesticable,
                       gatherable>>, NoStep),
            [system |-> e.system, name |-> e.name,
             atmosphere |-> atmosphere.val, fauna |-> fauna.val,
             flora |-> flora.val, gravity |-> gravity.val,
             hab_rank |-> hab_rank.val, magnetosphere |-> magnetosphere.val,
             planet_length |-> planet_length.val,
             temperature |-> temperature.val, type |-> e.data.type,
             water |-> water.val, biomes |-> biomes.val,
             traits |-> SortStrs(e.data.traits), resources |-> e.data.resources,
             domesticable |-> domesticable.val, gatherable |-> gatherable.val])

\* restructure.py 110-196: one body of the raw file
normalize(e) ==
    BodyOf(e, LowerField(e.data.atmosphere), IntOrZero(e.data.fauna, "fauna", e),
           IntOrZero(e.data.flora, "flora", e), Gravity(e.data.gravity),
           IntOrZero(e.data.hab_rank, "hab_rank", e),
           LowerField(e.data.magnetosphere), PlanetLength(e.data.planet_length, e),
           LowerField(e.data.temperature), LowerField(e.data.water),
           Biomes(e.data.biomes, e), Organics(e.data.domesticable),
           Organics(e.data.gatherable))

\* restructure.py 201-202: open(galaxy.json, "w") replaces the file's content
DumpAppend(old, bodies) == IF old = Absent THEN File(bodies) ELSE File(old[1] \o bodies)

Dump(old, bodies) == File(bodies)


-----------------------------------------------------------------------------
(* restructure.py *)

NoConn == <<>>
NoMap == [k \in {} |-> <<>>]
NoRun == <<>>

\* restructure.py 108-198: one pass of the loop, the body is appended
NormalizeBody ==
    /\ pc = "restructure"
    /\ idx <= Len(rawFile)
    /\ LET r == normalize(rawFile[idx])
       IN  /\ r.exc = "none"
           /\ galaxy' = Append(galaxy, r.body)
           /\ out' = out \o r.out
    /\ idx' = idx + 1
    /\ UNCHANGED <<rawFile, catalog, galaxyFile, dbFile, conn, shortname_map,
                   pc, exc, run, firstRun>>

\* restructure.py 108-198: one pass of the loop raises; nothing catches it,
\* the script ends with a traceback
NormalizeRaise ==
    /\ pc = "restructure"
    /\ idx <= Len(rawFile)
    /\ LET r == normalize(rawFile[idx])
       IN  /\ r.exc # "none"
           /\ exc' = r.exc
           /\ out' = out \o r.out
    /\ pc' = "restructure_failed"
    /\ UNCHANGED <<rawFile, catalog, galaxyFile, dbFile, galaxy, conn,
                   shortname_map, idx, run, firstRun>>

\* restructure.py 199-202: sort the galaxy, write galaxy.json
WriteGalaxy ==
    /\ pc = "restructure"
    /\ idx > Len(rawFile)
    /\ galaxy' = SortBySystemName(galaxy)
    /\ galaxyFile' = Dump(galaxyFile, galaxy')
    /\ pc' = "restructured"
    /\ UNCHANGED <<rawFile, catalog, dbFile, conn, shortname_map, out, exc,
                   idx, run, firstRun>>

NextNorm == NormalizeBody \/ NormalizeRaise \/ WriteGalaxy

-----------------------------------------------------------------------------
(* Raw files of the normalizer runs *)

MaxBodies == 2
MaxIntLen == 2
MaxPlLen == 3
MaxGravLen == 3
MaxBiomeLen == 3
MaxOrgLen == 4

StrsUpTo(A, n) == UNION {[1..k -> A] : k \in 0..n}

DefaultData ==
    [atmosphere |-> JStr(<<"A">>), fauna |-> JStr(<<"1">>), flora |-> JStr(<<"4">>),
     gravity |-> JStr(<<"1", ".", "4", "g">>), hab_rank |-> JStr(<<"7">>),
     magnetosphere |-> JStr(<<"B">>), planet_length |-> JStr(<<"7", " ", "h">>),
     temperature |-> JStr(<<"D">>), type |-> JStr(<<"R">>), water |-> JStr(<<"X">>),
     biomes |-> <<>>, traits |-> <<<<"b">>, <<"a">>>>, resources |-> <<<<"f">>>>,
     domesticable |-> <<>>, gatherable |-> <<>>]

IntRaw == {JStr(s) : s \in StrsUpTo({"7", "-", " ", "x"}, MaxIntLen)} \cup {JNull, JInt(4), JList}
IntFew == {JStr(<<"7">>), JStr(<<"x">>), JNull}
PlRaw == {JStr(s) : s \in StrsUpTo({"7", " ", "h"}, MaxPlLen)} \cup {JNull, JInt(4)}
GravRaw == {JStr(s) : s \in StrsUpTo({"1", ".", "g", "x"}, MaxGravLen)} \cup {JNull}
BiomeRaw == {JStr(s) : s \in StrsUpTo({"A", " ", "%", "4"}, MaxBiomeLen)} \cup {JNull}
BiomeFixed == {JStr(<<"A", " ", "4", "%">>)}
OrgFixed == {JStr(<<"b", "(", "f", ")">>)}
GathRaw ==
    {JStr(<<"b", "(", "(", "a", ")">>), JStr(<<"a", "(", ")", "b">>),
     JStr(<<"a", " ", "(", "i", ")">>), JNull}
OrgRaw ==
    {JStr(s) : s \in StrsUpTo({"a", "(", ")"}, MaxOrgLen)}
        \cup GathRaw
        \cup {JStr(<<" ", "a", " ", "(", " ", "a", ")", " ">>), JStr(<<" ", "(", " ">>)}

\* the lists tried for a list field: one entry, or a fixed entry and one entry
ListsOf(Raw, Fixed) == {<<e>> : e \in Raw} \cup {<<f, e>> : f \in Fixed, e \in Raw}

\* keys of the raw file's bodies: a JSON object has each key once
KeySeq ==
    <<[system |-> <<"A">>, name |-> <<"a">>], [system |-> <<"A">>, name |-> <<"b">>],
      [system |-> <<"B">>, name |-> <<"a">>], [system |-> <<"B">>, name |-> <<"b">>]>>

\* the raw file of n bodies whose body p has the data d; the file lists the
\* keys ascending (up) or descending
RawFileOf(n, p, up, d) ==
    [k \in 1..n |->
        [system |-> KeySeq[IF up THEN k ELSE n + 1 - k].system,
         name |-> KeySeq[IF up THEN k ELSE n + 1 - k].name,
         data |-> IF k = p THEN d ELSE DefaultData]]

\* the raw files in which one body has the data d
RawChoice(d) ==
    \E n \in 1..MaxBodies : \E p \in 1..n, up \in BOOLEAN :
        rawFile = RawFileOf(n, p, up, d)

\* the data of the varied body: one family of fields is varied at a time
InitRawFile ==
    \/ \E a \in IntRaw, b \in IntFew, c \in IntFew :
          RawChoice([DefaultData EXCEPT !.fauna = a, !.flora = b, !.hab_rank = c])
    \/ \E a \in IntRaw, b \in IntFew :
          RawChoice([DefaultData EXCEPT !.fauna = b, !.flora = a, !.hab_rank = a])
    \/ \E a \in PlRaw : RawChoice([DefaultData EXCEPT !.planet_length = a])
    \/ \E a \in GravRaw : RawChoice([DefaultData EXCEPT !.gravity = a])
    \/ \E l \in ListsOf(BiomeRaw, BiomeFixed) : RawChoice([DefaultData EXCEPT !.biomes = l])
    \/ \E l \in ListsOf(OrgRaw, OrgFixed) : RawChoice([DefaultData EXCEPT !.domesticable = l])
    \/ \E l \in ListsOf(GathRaw, OrgFixed) : RawChoice([DefaultData EXCEPT !.gatherable = l])

Tags == <<<<"a">>, <<"b">>, <<"d">>, <<"f">>, <<"g">>>>

\* body number j of a galaxy.json: its scalar fields and child lists are its
\* own, its key and its resource references are chosen
LoaderBody(key, refs, j) ==
    [system |-> key.system, name |-> key.name, atmosphere |-> <<"a">>,
     fauna |-> j, flora |-> 0, gravity |-> Dec(14, 1), hab_rank |-> 7,
     magnetosphere |-> <<"b">>, planet_length |-> DefaultPlanetLength,
     temperature |-> <<"d">>, type |-> JStr(<<"R">>), water |-> <<"x">>,
     biomes |-> <<[name |-> Tags[j], coverage |-> Dec(4, 1)]>>,
     traits |-> <<Tags[j]>>, resources |-> refs,
     domesticable |-> <<[name |-> Tags[j], resource |-> <<"I", "r">>]>>,
     gatherable |-> <<[name |-> Tags[j], resource |-> <<"F">>]>>]

\* a galaxy.json left by an earlier run
OldGalaxy == File(<<LoaderBody([system |-> <<"X">>, name |-> <<"x">>], <<<<"f">>>>, 5)>>)

DefaultCatalog == <<[resource |-> <<"I", "r">>, shortName |-> <<"F">>]>>

InitNorm ==
    /\ InitRawFile
    /\ catalog = DefaultCatalog
    /\ galaxyFile = OldGalaxy
    /\ dbFile = Absent
    /\ galaxy = <<>>
    /\ conn = NoConn
    /\ shortname_map = NoMap
    /\ out = <<>>
    /\ pc = "restructure"
    /\ exc = "none"
    /\ idx = 1
    /\ run = 1
    /\ firstRun = NoRun

SpecNorm == InitNorm /\ [][NextNorm]_vars


-----------------------------------------------------------------------------
(* create_db.py *)

EmptyDb ==
    [resources |-> <<>>, systems |-> <<>>, bodies |-> <<>>, traits |-> <<>>,
     body_resources |-> <<>>, body_organics |-> <<>>, biomes |-> <<>>]

\* create_db.py 101-104: an existing sf.db is removed, the connection opens a
\* fresh database
connect_to_db(file) == EmptyDb

\* sf.sql, table resources: the full name is the primary key
ResourcesKeyTaken(tbl, row) == \E k \in DOMAIN tbl : tbl[k].resource = row.resource

\* sf.sql, table bodies: (system, name) is the primary key
BodiesKeyTaken(tbl, row) ==
    \E k \in DOMAIN tbl : tbl[k].system = row.system /\ tbl[k].name = row.name

\* d[k] = v on a dict
DictSet(d, k, v) == [x \in DOMAIN d \cup {k} |-> IF x = k THEN v ELSE d[x]]

\* create_db.py 175-176: the two entries one resource adds to shortname_map
MapResource(m, resource) ==
    DictSet(DictSet(m, Lower(resource.shortName), resource.resource),
            Lower(resource.resource), resource.shortName)

\* create_db.py 164-176: the loop over the catalog; sqlite3.IntegrityError is
\* not caught here
RECURSIVE insert_resources(_, _, _)
insert_resources(db, m, data) ==
    IF data = <<>> THEN [exc |-> "none", db |-> db, map |-> m]
    ELSE IF ResourcesKeyTaken(db.resources, Head(data))
    THEN [exc |-> "IntegrityError", db |-> db, map |-> m]
    ELSE insert_resources([db EXCEPT !.resources = Append(@, Head(data))],
                          MapResource(m, Head(data)), Tail(data))

\* create_db.py 218: Counter([body["system"] for body in galaxy]).items(), the
\* systems in order of first occurrence
RECURSIVE CountsOne(_)
CountsOne(bodies) ==
    IF bodies = <<>> THEN <<>>
    ELSE LET rest == CountsOne(SubSeq(bodies, 1, Len(bodies) - 1))
             sys == bodies[Len(bodies)].system
         IN  IF \E k \in DOMAIN rest : rest[k].name = sys
             THEN rest
             ELSE Append(rest, [name |-> sys, count |-> 1])

RECURSIVE Counts(_)
Counts(bodies) ==
    IF bodies = <<>> THEN <<>>
    ELSE LET rest == Counts(SubSeq(bodies, 1, Len(bodies) - 1))
             sys == bodies[Len(bodies)].system
         IN  IF \E k \in DOMAIN rest : rest[k].name = sys
             THEN [k \in DOMAIN rest |->
                      IF rest[k].name = sys
                      THEN [rest[k] EXCEPT !.count = @ + 1] ELSE rest[k]]
             ELSE Append(rest, [name |-> sys, count |-> 1])

\* create_db.py 223-236: the bodies row of a body
BodyRow(body) ==
    [name |-> body.name, system |-> body.system, type |-> body.type,
     gravity |-> body.gravity, temperature |-> body.temperature,
     atmosphere |-> body.atmosphere, magnetosphere |-> body.magnetosphere,
     water |-> body.water, fauna |-> body.fauna, flora |-> body.flora,
     hab_rank |-> body.hab_rank, planet_length |-> body.planet_length]

\* create_db.py 237-244: INSERT INTO bodies; on sqlite3.IntegrityError the
\* row is printed and the loop body goes on
InsertBodyReplace(db, body) ==
    LET row == BodyRow(body)
    IN  IF BodiesKeyTaken(db.bodies, row)
        THEN [exc |-> "none",
              db |-> [db EXCEPT !.bodies =
                         [k \in DOMAIN @ |->
                             IF @[k].system = row.system /\ @[k].name = row.name
                             THEN row ELSE @[k]]],
              out |-> <<[kind |-> "Bad data", row |-> row]>>]
        ELSE [exc |-> "none", db |-> [db EXCEPT !.bodies = Append(@, row)], out |-> <<>>]

InsertBodyNameKey(db, body) ==
    LET row == BodyRow(body)
    IN  IF \E k \in DOMAIN db.bodies : db.bodies[k].name = row.name
        THEN [exc |-> "none", db |-> db, out |-> <<[kind |-> "Bad data", row |-> row]>>]
        ELSE [exc |-> "none", db |-> [db EXCEPT !.bodies = Append(@, row)], out |-> <<>>]

InsertBody(db, body) ==
    LET row == BodyRow(body)
    IN  IF BodiesKeyTaken(db.bodies, row)
        THEN [exc |-> "none", db |-> db, out |-> <<[kind |-> "Bad data", row |-> row]>>]
        ELSE [exc |-> "none", db |-> [db EXCEPT !.bodies = Append(@, row)], out |-> <<>>]

\* create_db.py 246-250
InsertTraits(db, body) ==
    [exc |-> "none", out |-> <<>>,
     db |-> [db EXCEPT !.traits = @ \o
               [k \in DOMAIN body.traits |->
                   [system |-> body.system, body |-> body.name, trait |-> body.traits[k]]]]]

\* create_db.py 252-256: shortname_map[resource.lower()] raises KeyError for
\* a reference that is no key; the rows inserted before it are pending
RECURSIVE InsertBodyResources(_, _, _, _)
InsertBodyResources(db, body, m, refs) ==
    IF refs = <<>> THEN [exc |-> "none", db |-> db, out |-> <<>>]
    ELSE IF Lower(Head(refs)) \notin DOMAIN m
    THEN [exc |-> "KeyError", db |-> db, out |-> <<>>]
    ELSE InsertBodyResources(
             [db EXCEPT !.body_resources =
                 Append(@, [system |-> body.system, body |-> body.name,
                            resource |-> m[Lower(Head(refs))]])],
             body, m, Tail(refs))

\* create_db.py 258-268
InsertOrganics(db, body) ==
    [exc |-> "none", out |-> <<>>,
     db |-> [db EXCEPT !.body_organics = @ \o
               [k \in DOMAIN body.domesticable |->
                   [system |-> body.system, body |-> body.name,
                    name |-> body.domesticable[k].name,
                    resource |-> body.domesticable[k].resource, domesticable |-> TRUE]]
               \o
               [k \in DOMAIN body.gatherable |->
                   [system |-> body.system, body |-> body.name,
                    name |-> body.gatherable[k].name,
                    resource |-> body.gatherable[k].resource, domesticable |-> FALSE]]]]

\* create_db.py 270-274
InsertBiomes(db, body) ==
    [exc |-> "none", out |-> <<>>,
     db |-> [db EXCEPT !.biomes = @ \o
               [k \in DOMAIN body.biomes |->
                   [system |-> body.system, body |-> body.name,
                    name |-> body.biomes[k].name,
                    coverage |-> body.biomes[k].coverage]]]]

\* create_db.py 222-274: the statements of one pass of the loop, up to the
\* commit; db is the connection's view, an exception leaves it mid-way
load_body(db, body, m) ==
    LET b == InsertBody(db, body)
        t == InsertTraits(b.db, body)
        r == InsertBodyResources(t.db, body, m, body.resources)
        o == InsertOrganics(r.db, body)
        z == InsertBiomes(o.db, body)
    IN  IF r.exc # "none"
        THEN [exc |-> r.exc, db |-> r.db, out |-> b.out]
        ELSE [exc |-> "none", db |-> z.db, out |-> b.out]

\* con.commit() (create_db.py 130, 177, 220, 275) makes the pending rows
\* durable; a script that ends on an uncaught exception never commits its
\* pending rows
OnUncaughtKeep(committed, pending) == pending

OnUncaught(committed, pending) == committed

\* create_db.py 18-19: connect_to_db, install_schema
OpenDb ==
    /\ pc = "create_db"
    /\ conn' = File(connect_to_db(dbFile))
    /\ dbFile' = conn'
    /\ shortname_map' = NoMap
    /\ pc' = "insert_resources"
    /\ UNCHANGED <<rawFile, catalog, galaxyFile, galaxy, out, exc, idx, run, firstRun>>

\* create_db.py 134-179: insert_resources returns
InsertResources ==
    /\ pc = "insert_resources"
    /\ LET r == insert_resources(conn[1], NoMap, catalog)
       IN  /\ r.exc = "none"
           /\ conn' = File(r.db)
           /\ dbFile' = File(r.db)
           /\ shortname_map' = r.map
    /\ pc' = "insert_systems"
    /\ UNCHANGED <<rawFile, catalog, galaxyFile, galaxy, out, exc, idx, run, firstRun>>

\* create_db.py 134-179: insert_resources raises
InsertResourcesRaise ==
    /\ pc = "insert_resources"
    /\ LET r == insert_resources(conn[1], NoMap, catalog)
       IN  /\ r.exc # "none"
           /\ exc' = r.exc
           /\ dbFile' = OnUncaught(dbFile, File(r.db))
    /\ conn' = NoConn
    /\ pc' = "create_db_failed"
    /\ UNCHANGED <<rawFile, catalog, galaxyFile, galaxy, shortname_map, out, idx,
                   run, firstRun>>

\* create_db.py 212-220: load galaxy.json, insert the systems, commit
InsertSystems ==
    /\ pc = "insert_systems"
    /\ galaxyFile # Absent
    /\ conn' = File([conn[1] EXCEPT !.systems = @ \o Counts(galaxyFile[1])])
    /\ dbFile' = conn'
    /\ idx' = 1
    /\ pc' = "insert_bodies"
    /\ UNCHANGED <<rawFile, catalog, galaxyFile, galaxy, shortname_map, out, exc,
                   run, firstRun>>

\* create_db.py 222-275: one pass of the loop, committed
LoadBody ==
    /\ pc = "insert_bodies"
    /\ idx <= Len(galaxyFile[1])
    /\ LET r == load_body(conn[1], galaxyFile[1][idx], shortname_map)
       IN  /\ r.exc = "none"
           /\ conn' = File(r.db)
           /\ dbFile' = File(r.db)
           /\ out' = out \o r.out
    /\ idx' = idx + 1
    /\ UNCHANGED <<rawFile, catalog, galaxyFile, galaxy, shortname_map, pc, exc,
                   run, firstRun>>

\* create_db.py 222-275: one pass of the loop raises; nothing catches it
LoadBodyRaise ==
    /\ pc = "insert_bodies"
    /\ idx <= Len(galaxyFile[1])
    /\ LET r == load_body(conn[1], galaxyFile[1][idx], shortname_map)
       IN  /\ r.exc # "none"
           /\ exc' = r.exc
           /\ dbFile' = OnUncaught(dbFile, File(r.db))
           /\ out' = out \o r.out
    /\ conn' = NoConn
    /\ pc' = "create_db_failed"
    /\ UNCHANGED <<rawFile, catalog, galaxyFile, galaxy, shortname_map, idx, run,
                   firstRun>>

\* create_db.py 22: con.close() after the loop
CloseDb ==
    /\ pc = "insert_bodies"
    /\ idx > Len(galaxyFile[1])
    /\ conn' = NoConn
    /\ pc' = "created_db"
    /\ UNCHANGED <<rawFile, catalog, galaxyFile, dbFile, galaxy, shortname_map, out,
                   exc, idx, run, firstRun>>

NextLoad ==
    \/ OpenDb \/ InsertResources \/ InsertResourcesRaise \/ InsertSystems
    \/ LoadBody \/ LoadBodyRaise \/ CloseDb


-----------------------------------------------------------------------------
(* Files of the loader runs *)

MaxGalaxy == 3

LoaderKeys == {KeySeq[1], KeySeq[2], KeySeq[3]}

\* reference lists: a short name in lower case, a full name in upper case, a
\* short name followed by a name no catalog has
RefLists == {<<<<"f">>>>, <<<<"I", "R">>>>, <<<<"F">>, <<"x">>>>}

Catalogs ==
    {DefaultCatalog,
     <<[resource |-> <<"I", "r">>, shortName |-> <<"F">>],
       [resource |-> <<"A", "b">>, shortName |-> <<"A">>]>>,
     <<[resource |-> <<"I", "r">>, shortName |-> <<"F">>],
       [resource |-> <<"I", "r">>, shortName |-> <<"X">>]>>}

\* an sf.db left by an earlier run
OldDb ==
    [EmptyDb EXCEPT !.systems = <<[name |-> <<"X">>, count |-> 1]>>,
                    !.traits = <<[system |-> <<"X">>, body |-> <<"x">>, trait |-> <<"x">>]>>]

InitLoad ==
    /\ rawFile = <<>>
    /\ catalog \in Catalogs
    /\ \E n \in 0..MaxGalaxy :
          \E ks \in [1..n -> LoaderKeys], rs \in [1..n -> RefLists] :
              galaxyFile = File([j \in 1..n |-> LoaderBody(ks[j], rs[j], j)])
    /\ dbFile = File(OldDb)
    /\ galaxy = <<>>
    /\ conn = NoConn
    /\ shortname_map = NoMap
    /\ out = <<>>
    /\ pc = "create_db"
    /\ exc = "none"
    /\ idx = 1
    /\ run = 1
    /\ firstRun = NoRun

SpecLoad == InitLoad /\ [][NextLoad]_vars


-----------------------------------------------------------------------------
(* Properties of the loader, checked under SpecLoad *)

\* the bodies of galaxy.json
G == galaxyFile[1]

\* the bodies whose loop pass has been committed
Committed ==
    IF pc \in {"insert_bodies", "created_db"} \/ (pc = "create_db_failed" /\ exc = "KeyError")
    THEN 1..(idx - 1) ELSE {}

\* the bodies whose bodies row has been tried: the committed ones, and the
\* one at which the run ended
Attempted ==
    Committed \cup (IF pc = "create_db_failed" /\ exc = "KeyError" THEN {idx} ELSE {})

\* the reference names a catalog entry, by short or full name, in any case
Resolvable(ref) ==
    \E k \in DOMAIN catalog :
        \/ Lower(ref) = Lower(catalog[k].shortName)
        \/ Lower(ref) = Lower(catalog[k].resource)

SameKey(a, b) == a.system = b.system /\ a.name = b.name

IsDuplicate(j) == \E i \in 1..(j - 1) : SameKey(G[i], G[j])

FirstWithKey(j) == CHOOSE i \in 1..j : SameKey(G[i], G[j]) /\ ~\E h \in 1..(i - 1) : SameKey(G[h], G[j])

RECURSIVE SumOver(_, _)
SumOver(f, S) ==
    IF S = {} THEN 0
    ELSE LET x == CHOOSE y \in S : TRUE IN f[x] + SumOver(f, S \ {x})

RowsOf(tbl, j) == {k \in DOMAIN tbl : tbl[k].system = G[j].system /\ tbl[k].body = G[j].name}

\* C1: for every catalog entry (F, S) and every reference r of a loaded body
\* with lower(r) = lower(S) or lower(r) = lower(F), r resolves to F and the
\* body_resources row of the reference carries F.
C1_ResolvesToFullName ==
    \A j \in Committed : \A n \in DOMAIN G[j].resources : \A k \in DOMAIN catalog :
        LET r == G[j].resources[n]
        IN  (Lower(r) = Lower(catalog[k].shortName) \/ Lower(r) = Lower(catalog[k].resource))
            => /\ shortname_map[Lower(r)] = catalog[k].resource
               /\ \E w \in RowsOf(dbFile[1].body_resources, j) :
                      dbFile[1].body_resources[w].resource = catalog[k].resource

\* C2: a body whose (system, name) key an earlier body has does not end the
\* load: the only IntegrityError that ends it is a repeated full name of the
\* catalog, and a KeyError ends it only at a body with an unresolvable
\* reference.  For every loaded body the bodies table holds exactly one row
\* with its key, the row of the first body of that key; one line is printed
\* per duplicate reached, naming its row; the traits, resources, organics and biomes
\* of every loaded body, duplicates included, are in the store; and a run
\* that ends normally has loaded every body.
C2_DuplicateBodySkipped ==
    /\ (pc = "create_db_failed" /\ exc = "IntegrityError")
          => \E a, b \in DOMAIN catalog : a # b /\ catalog[a].resource = catalog[b].resource
    /\ (pc = "create_db_failed" /\ exc = "KeyError")
          => \E n \in DOMAIN G[idx].resources : ~Resolvable(G[idx].resources[n])
    /\ pc = "created_db" => Committed = DOMAIN G
    /\ \A j \in Committed :
          LET rows == {k \in DOMAIN dbFile[1].bodies : SameKey(dbFile[1].bodies[k], G[j])}
          IN  /\ Cardinality(rows) = 1
              /\ \A k \in rows : dbFile[1].bodies[k].fauna = G[FirstWithKey(j)].fauna
              /\ \E k \in RowsOf(dbFile[1].traits, j) :
                     dbFile[1].traits[k].trait = G[j].traits[1]
              /\ \E k \in RowsOf(dbFile[1].biomes, j) :
                     dbFile[1].biomes[k].name = G[j].biomes[1].name
              /\ \E k \in RowsOf(dbFile[1].body_organics, j) :
                     /\ dbFile[1].body_organics[k].name = G[j].domesticable[1].name
                     /\ dbFile[1].body_organics[k].domesticable
              /\ \E k \in RowsOf(dbFile[1].body_organics, j) :
                     /\ dbFile[1].body_organics[k].name = G[j].gatherable[1].name
                     /\ ~dbFile[1].body_organics[k].domesticable
    /\ Committed # {} =>
          /\ Len(dbFile[1].body_resources) =
                SumOver([j \in Committed |-> Len(G[j].resources)], Committed)
          /\ Len(dbFile[1].traits) = SumOver([j \in Committed |-> Len(G[j].traits)], Committed)
    /\ pc \in {"insert_bodies", "created_db", "create_db_failed"} =>
          /\ Len(out) = Cardinality({j \in Attempted : IsDuplicate(j)})
          /\ \A j \in Attempted : IsDuplicate(j) =>
                \E k \in DOMAIN out : out[k].kind = "Bad data" /\ out[k].row.fauna = G[j].fauna

\* a run ended normally in which a duplicate was followed by another body
C2_Witness ==
    /\ pc = "created_db"
    /\ \E j \in DOMAIN G : IsDuplicate(j) /\ j < Len(G)
    /\ Len(out) = 1
    /\ Len(dbFile[1].bodies) = Len(G) - 1
    /\ Len(dbFile[1].traits) = Len(G)

\* rows of a table that belong to one of the bodies S: every body has its own
\* trait, biome name, organism names and fauna count
NoRowOf(S) ==
    /\ \A k \in DOMAIN dbFile[1].bodies : \A j \in S : dbFile[1].bodies[k].fauna # G[j].fauna
    /\ \A k \in DOMAIN dbFile[1].traits : \A j \in S :
          dbFile[1].traits[k].trait # G[j].traits[1]
    /\ \A k \in DOMAIN dbFile[1].biomes : \A j \in S :
          dbFile[1].biomes[k].name # G[j].biomes[1].name
    /\ \A k \in DOMAIN dbFile[1].body_organics : \A j \in S :
          dbFile[1].body_organics[k].name # G[j].domesticable[1].name

\* C3: the load goes past a body only if all its references resolve; when it
\* ends at body k on an unresolvable reference, the committed store holds
\* every resource row, every system row, the rows of bodies 1..k-1 in full,
\* and no row of body k or of a later body.
C3_AbortKeepsCommittedPrefix ==
    /\ \A j \in Committed : \A n \in DOMAIN G[j].resources : Resolvable(G[j].resources[n])
    /\ (pc = "create_db_failed" /\ exc = "KeyError") =>
          /\ \E n \in DOMAIN G[idx].resources : ~Resolvable(G[idx].resources[n])
          /\ Len(dbFile[1].resources) = Len(catalog)
          /\ \A j \in DOMAIN G : \E k \in DOMAIN dbFile[1].systems :
                dbFile[1].systems[k].name = G[j].system
          /\ NoRowOf(idx..Len(G))
          /\ \A j \in Committed :
                /\ \E k \in DOMAIN dbFile[1].bodies :
                       dbFile[1].bodies[k].fauna = G[FirstWithKey(j)].fauna
                /\ \E k \in RowsOf(dbFile[1].traits, j) :
                       dbFile[1].traits[k].trait = G[j].traits[1]
                /\ \E k \in RowsOf(dbFile[1].biomes, j) :
                       dbFile[1].biomes[k].name = G[j].biomes[1].name
                /\ Cardinality({k \in RowsOf(dbFile[1].body_organics, j) :
                       dbFile[1].body_organics[k].name = G[j].domesticable[1].name}) = 2
          /\ Len(dbFile[1].body_resources) =
                SumOver([j \in 1..(idx - 1) |-> Len(G[j].resources)], 1..(idx - 1))
          /\ Len(dbFile[1].traits) = idx - 1
          /\ Len(dbFile[1].biomes) = idx - 1

\* the load ended at the third body, after a resolvable reference of that
\* body, with two bodies committed
C3_Witness ==
    /\ pc = "create_db_failed" /\ exc = "KeyError"
    /\ idx = 3
    /\ Len(G[idx].resources) = 2
    /\ idx < Len(G) \/ Len(G) = 3
    /\ Len(dbFile[1].traits) = 2

\* the systems table has one row per system of the galaxy, with the number
\* of the galaxy's bodies of that system
SystemsRight(tbl) ==
    /\ \A j \in DOMAIN G :
          LET rows == {k \in DOMAIN tbl : tbl[k].name = G[j].system}
          IN  /\ Cardinality(rows) = 1
              /\ \A k \in rows :
                    tbl[k].count = Cardinality({i \in DOMAIN G : G[i].system = G[j].system})
    /\ \A k \in DOMAIN tbl : \E j \in DOMAIN G : tbl[k].name = G[j].system

\* C4: from the moment the loop over the bodies starts, hence whenever a
\* bodies row exists, pending or committed, the committed systems table has
\* exactly one row per distinct system of the galaxy with its body count, and
\* stays so to the end of the run.
C4_SystemsBeforeBodies ==
    (\/ pc \in {"insert_bodies", "created_db"}
     \/ (pc = "create_db_failed" /\ exc = "KeyError")
     \/ dbFile[1].bodies # <<>>
     \/ (conn # NoConn /\ conn[1].bodies # <<>>))
        => SystemsRight(dbFile[1].systems)

\* the loop over the bodies is about to start: no bodies row yet, two systems
\* committed, one of them with two bodies
C4_Witness ==
    /\ pc = "insert_bodies" /\ idx = 1
    /\ dbFile[1].bodies = <<>>
    /\ Len(dbFile[1].systems) = 2
    /\ \E k \in DOMAIN dbFile[1].systems : dbFile[1].systems[k].count = 2


\* the rows of the four child tables of a store
ChildRows(db) ==
    {[system |-> db.traits[k].system, body |-> db.traits[k].body] : k \in DOMAIN db.traits}
        \cup {[system |-> db.body_resources[k].system, body |-> db.body_resources[k].body] :
                  k \in DOMAIN db.body_resources}
        \cup {[system |-> db.body_organics[k].system, body |-> db.body_organics[k].body] :
                  k \in DOMAIN db.body_organics}
        \cup {[system |-> db.biomes[k].system, body |-> db.biomes[k].body] :
                  k \in DOMAIN db.biomes}

HasBodyRow(db, system, name) ==
    \E b \in DOMAIN db.bodies : db.bodies[b].system = system /\ db.bodies[b].name = name

HasSystemRow(db, system) == \E k \in DOMAIN db.systems : db.systems[k].name = system

\* C11: in every committed state of the store during a load (from the fresh
\* store on: after each commit, after a run that ended on a later body,
\* after a duplicate body was skipped), every traits, body_resources,
\* body_organics and biomes row has a bodies row with its (system, body)
\* key, and every bodies row has a systems row with its system.
C11_NoOrphanCommitted ==
    pc \in {"insert_resources", "insert_systems", "insert_bodies", "created_db",
            "create_db_failed"} =>
        /\ \A r \in ChildRows(dbFile[1]) : HasBodyRow(dbFile[1], r.system, r.body)
        /\ \A b \in DOMAIN dbFile[1].bodies :
              HasSystemRow(dbFile[1], dbFile[1].bodies[b].system)

\* a run that skipped a duplicate body, committed its child rows next to
\* those of the first body with that key, and then ended on a later body
C11_Witness ==
    /\ pc = "create_db_failed" /\ exc = "KeyError"
    /\ \E j \in Committed :
          /\ IsDuplicate(j)
          /\ Cardinality(RowsOf(dbFile[1].traits, j)) >= 2
          /\ Cardinality(RowsOf(dbFile[1].biomes, j)) >= 2
          /\ Cardinality({b \in DOMAIN dbFile[1].bodies : SameKey(dbFile[1].bodies[b], G[j])}) = 1


-----------------------------------------------------------------------------
(* Properties of the normalizer, checked under SpecNorm *)

\* the raw bodies normalized and appended so far
Normalized ==
    IF pc \in {"restructure", "restructure_failed"} THEN 1..(idx - 1)
    ELSE IF pc = "restructured" THEN DOMAIN rawFile ELSE {}

\* the normalized body of raw body j
NBody(j) ==
    CHOOSE b \in {galaxy[k] : k \in DOMAIN galaxy} :
        b.system = rawFile[j].system /\ b.name = rawFile[j].name

\* the lines printed about raw body j by the check `kind`
DiagsOf(j, kind) ==
    {k \in DOMAIN out : /\ out[k].kind = kind
                        /\ out[k].system = rawFile[j].system
                        /\ out[k].body = rawFile[j].name}

\* raw body j differs from a regular body in the fields F at most
RegularBut(j, F) ==
    \A f \in DOMAIN DefaultData : f \notin F => rawFile[j].data[f] = DefaultData[f]

\* the run ended on an exception at raw body j
FailedAt(j) == pc = "restructure_failed" /\ idx = j

\* a string of digits, with an optional minus sign, blanks around it allowed
IsIntLiteral(s) ==
    LET t == Strip(s)
        d == IF t # <<>> /\ t[1] = "-" THEN SubSeq(t, 2, Len(t)) ELSE t
    IN  d # <<>> /\ \A k \in DOMAIN d : d[k] \in Digits

IntLiteralVal(s) ==
    LET t == Strip(s)
    IN  IF t[1] = "-" THEN 0 - DigitsVal(SubSeq(t, 2, Len(t))) ELSE DigitsVal(t)

ValidInteger(v) == v.t = "int" \/ (v.t = "str" /\ IsIntLiteral(v.s))

CountFields == {"fauna", "flora", "hab_rank"}

\* C6: for each of fauna, flora and hab_rank and every raw value that is not
\* a valid integer, the body is normalized all the same: the field is 0, one
\* line naming the system, the body and the raw value is printed, and the
\* other fields are normalized.
C6_InvalidCountDefaultsToZero ==
    \A j \in DOMAIN rawFile : RegularBut(j, CountFields) =>
        /\ ~FailedAt(j)
        /\ j \in Normalized =>
              /\ NBody(j).planet_length = 7
              /\ NBody(j).gravity = Dec(14, 1)
              /\ \A f \in CountFields :
                    ~ValidInteger(rawFile[j].data[f]) =>
                        /\ NBody(j)[f] = 0
                        /\ Cardinality(DiagsOf(j, f)) = 1
                        /\ \A k \in DiagsOf(j, f) : out[k].raw = rawFile[j].data[f]

\* position of the first and of the last occurrence of c in s, 0 if none
FirstIndex(s, c) ==
    IF Contains(s, c) THEN CHOOSE k \in DOMAIN s : s[k] = c /\ \A m \in 1..(k - 1) : s[m] # c
    ELSE 0

LastIndex(s, c) ==
    IF Contains(s, c)
    THEN CHOOSE k \in DOMAIN s : s[k] = c /\ \A m \in (k + 1)..Len(s) : s[m] # c
    ELSE 0

\* the text before the first blank, the whole text if it has no blank
FirstToken(s) == IF Contains(s, " ") THEN SubSeq(s, 1, FirstIndex(s, " ") - 1) ELSE s

\* C7: when the raw planet_length is a string whose first blank-separated
\* token is an integer n, the normalized planet_length is n and nothing is
\* printed; for every other raw value it is 24 and one line with the raw
\* value is printed; the run never ends on a planet_length.
C7_PlanetLength ==
    \A j \in DOMAIN rawFile :
        LET v == rawFile[j].data.planet_length
            good == v.t = "str" /\ FirstToken(v.s) # <<>> /\ IsIntLiteral(FirstToken(v.s))
        IN  /\ RegularBut(j, {"planet_length"}) => ~FailedAt(j)
            /\ j \in Normalized =>
                  IF good
                  THEN /\ NBody(j).planet_length = IntLiteralVal(FirstToken(v.s))
                       /\ DiagsOf(j, "planet_length") = {}
                  ELSE /\ NBody(j).planet_length = 24
                       /\ Cardinality(DiagsOf(j, "planet_length")) = 1
                       /\ \A k \in DiagsOf(j, "planet_length") : out[k].raw = v

\* a body whose planet_length "77 " gave 77, and the run went on to the end
C7_Witness ==
    /\ pc = "restructured"
    /\ \E j \in DOMAIN rawFile :
          /\ rawFile[j].data.planet_length = JStr(<<"7", "7", " ">>)
          /\ NBody(j).planet_length = 77
          /\ DiagsOf(j, "planet_length") = {}

\* number of positions of the sequence s that hold x
CountIn(s, x) == Cardinality({k \in DOMAIN s : s[k] = x})

\* the same elements with the same multiplicities
SameBag(s, t) ==
    /\ Len(s) = Len(t)
    /\ \A k \in DOMAIN s : CountIn(s, s[k]) = CountIn(t, s[k])

SortedByName(s) == \A k \in 1..(Len(s) - 1) : ~StrLt(s[k + 1].name, s[k].name)

\* the last blank-separated token of s and the text before its blank
LastToken(s) == SubSeq(s, LastIndex(s, " ") + 1, Len(s))

BeforeLastToken(s) == SubSeq(s, 1, LastIndex(s, " ") - 1)

\* the raw biome entry is dropped: it has a "%" and its last token, the "%"
\* taken out, is no number
Dropped(v) == Contains(v.s, "%") /\ ~PyFloatStr(Remove(LastToken(v.s), "%")).ok

\* the biome a kept raw entry stands for
ExpectedBiome(v) ==
    IF Contains(v.s, "%")
    THEN [name |-> BeforeLastToken(v.s),
          coverage |-> DivHundred(PyFloatStr(Remove(LastToken(v.s), "%")).val)]
    ELSE [name |-> v.s, coverage |-> Dec(0, 0)]

RECURSIVE SelectKept(_)
SelectKept(l) ==
    IF l = <<>> THEN <<>>
    ELSE IF Dropped(Head(l)) THEN SelectKept(Tail(l))
    ELSE <<ExpectedBiome(Head(l))>> \o SelectKept(Tail(l))

AllStr(l) == \A k \in DOMAIN l : l[k].t = "str"

\* C8: the normalized biomes are, ordered by name, exactly one biome per raw
\* entry that has no "%" (the whole string, coverage 0) or has a "%" and a
\* last token that is a number (the other tokens joined by blanks, the number
\* / 100); every other entry is left out with one printed line and does not
\* end the run.
C8_Biomes ==
    \A j \in DOMAIN rawFile :
        LET l == rawFile[j].data.biomes
        IN  AllStr(l) =>
            /\ RegularBut(j, {"biomes"}) => ~FailedAt(j)
            /\ j \in Normalized =>
                  /\ SameBag(NBody(j).biomes, SelectKept(l))
                  /\ SortedByName(NBody(j).biomes)
                  /\ Cardinality(DiagsOf(j, "biome")) =
                        Cardinality({k \in DOMAIN l : Dropped(l[k])})
                  /\ \A k \in DOMAIN l : Dropped(l[k]) =>
                        \E d \in DiagsOf(j, "biome") : out[d].raw = l[k]

\* "A 4%" was kept as (A, 0.04) and "A %" dropped with one line
C8_Witness ==
    /\ pc = "restructured"
    /\ \E j \in DOMAIN rawFile :
          /\ rawFile[j].data.biomes = <<JStr(<<"A", " ", "4", "%">>), JStr(<<"A", " ", "%">>)>>
          /\ NBody(j).biomes = <<[name |-> <<"A">>, coverage |-> Dec(4, 2)]>>
          /\ Cardinality(DiagsOf(j, "biome")) = 1

\* the text after the first "(" and after the last "(", the whole text if
\* it has none
AfterFirstParen(s) == SubSeq(s, FirstIndex(s, "(") + 1, Len(s))

AfterLastParen(s) == SubSeq(s, LastIndex(s, "(") + 1, Len(s))

BeforeFirstParen(s) == IF Contains(s, "(") THEN SubSeq(s, 1, FirstIndex(s, "(") - 1) ELSE s

\* s without one closing parenthesis at its end
DropTrailingParen(s) ==
    IF s # <<>> /\ s[Len(s)] = ")" THEN SubSeq(s, 1, Len(s) - 1) ELSE s

OrganicAsClaimed(v) ==
    [name |-> Strip(BeforeFirstParen(v.s)),
     resource |-> Strip(DropTrailingParen(Strip(AfterFirstParen(v.s))))]

OrganicAsAmended(v) ==
    [name |-> Strip(BeforeFirstParen(v.s)),
     resource |-> Strip(Remove(AfterLastParen(v.s), ")"))]

OrganicFields == {"domesticable", "gatherable"}

\* C9 as claimed: the organism name is the text before the first "(",
\* trimmed, the resource reference is all the text after that first "(" with
\* only a trailing ")" removed, trimmed, also for entries with several "("
\* or an inner ")"; each list is ordered by organism name.
C9_SplitAtFirstParen ==
    \A j \in Normalized : \A f \in OrganicFields :
        LET l == rawFile[j].data[f]
        IN  /\ SameBag(NBody(j)[f], [k \in DOMAIN l |-> OrganicAsClaimed(l[k])])
            /\ SortedByName(NBody(j)[f])

\* C9 as amended: the organism name is the text before the first "(" (the
\* whole entry if it has none), trimmed; the resource reference is the text
\* after the last "(" (the whole entry if it has none) with every ")"
\* removed, trimmed; each list is ordered by organism name.
C9_SplitAtLastParen ==
    \A j \in Normalized : \A f \in OrganicFields :
        LET l == rawFile[j].data[f]
        IN  /\ SameBag(NBody(j)[f], [k \in DOMAIN l |-> OrganicAsAmended(l[k])])
            /\ SortedByName(NBody(j)[f])

\* "b(f)" and "a((a" were normalized to (a, a) and (b, f), in that order
C9_Witness ==
    /\ pc = "restructured"
    /\ \E j \in DOMAIN rawFile :
          /\ rawFile[j].data.domesticable =
                <<JStr(<<"b", "(", "f", ")">>), JStr(<<"a", "(", "(", "a">>)>>
          /\ NBody(j).domesticable =
                <<[name |-> <<"a">>, resource |-> <<"a">>],
                  [name |-> <<"b">>, resource |-> <<"f">>]>>

\* the gravity, its unit marker "g" removed and trimmed, is a decimal number
GravityParses(v) ==
    /\ v.t = "str"
    /\ LET t == Strip(Remove(v.s, "g"))
           d == IF t # <<>> /\ t[1] = "-" THEN SubSeq(t, 2, Len(t)) ELSE t
       IN  /\ \A k \in DOMAIN d : d[k] \in Digits \cup {"."}
           /\ Cardinality({k \in DOMAIN d : d[k] = "."}) <= 1
           /\ \E k \in DOMAIN d : d[k] \in Digits

\* C10: no body whose gravity does not parse is ever appended to the galaxy;
\* the run ends at the first such body: the galaxy holds the bodies before
\* it only, no later body is normalized, and galaxy.json is not written, so
\* that an existing galaxy.json stays as it was.
C10_BadGravityAborts ==
    /\ \A j \in Normalized : GravityParses(rawFile[j].data.gravity)
    /\ \A j \in DOMAIN rawFile :
          (~GravityParses(rawFile[j].data.gravity) /\ pc # "restructure")
              => /\ pc = "restructure_failed"
                 /\ idx <= j
                 /\ Len(galaxy) = idx - 1
                 /\ \A k \in DOMAIN galaxy : \A i \in j..Len(rawFile) :
                       ~SameKey(galaxy[k], rawFile[i])
                 /\ galaxyFile = OldGalaxy

\* the run ended at the first of two bodies on its gravity
C10_Witness ==
    /\ pc = "restructure_failed" /\ exc = "ValueError"
    /\ idx = 1 /\ Len(rawFile) = 2
    /\ ~GravityParses(rawFile[1].data.gravity)
    /\ galaxy = <<>>
    /\ galaxyFile = OldGalaxy


-----------------------------------------------------------------------------
(* The pipeline run twice on the same input: restructure.py, then, when it  *)
(* has written galaxy.json, create_db.py                                     *)

\* create_db.py 13-21: the loader starts on the galaxy.json just written
StartCreateDb ==
    /\ pc = "restructured"
    /\ pc' = "create_db"
    /\ idx' = 1
    /\ UNCHANGED <<rawFile, catalog, galaxyFile, dbFile, galaxy, conn, shortname_map,
                   out, exc, run, firstRun>>

\* restructure.py 81-106: the second run starts once the first has ended,
\* normally or not; the files of the first run are noted
StartSecondRun ==
    /\ run = 1
    /\ pc \in {"restructure_failed", "create_db_failed", "created_db"}
    /\ firstRun' = File([galaxyFile |-> galaxyFile, dbFile |-> dbFile])
    /\ run' = 2
    /\ pc' = "restructure"
    /\ galaxy' = <<>>
    /\ idx' = 1
    /\ exc' = "none"
    /\ out' = <<>>
    /\ conn' = NoConn
    /\ shortname_map' = NoMap
    /\ UNCHANGED <<rawFile, catalog, galaxyFile, dbFile>>

NextPipe == NextNorm \/ NextLoad \/ StartCreateDb \/ StartSecondRun

\* the data of the varied body of a pipeline input
PipeData ==
    {DefaultData,
     [DefaultData EXCEPT !.gravity = JStr(<<"x">>)],
     [DefaultData EXCEPT !.fauna = JStr(<<"x">>), !.resources = <<<<"I", "R">>>>],
     [DefaultData EXCEPT !.resources = <<<<"f">>, <<"x">>>>],
     [DefaultData EXCEPT !.biomes = <<JStr(<<"A", " ", "4", "%">>), JStr(<<"A", " ", "%">>)>>,
                         !.domesticable = <<JStr(<<"b", "(", "f", ")">>)>>,
                         !.traits = <<>>]}

InitPipe ==
    /\ \E d \in PipeData : RawChoice(d)
    /\ catalog \in Catalogs
    /\ galaxyFile \in {Absent, OldGalaxy}
    /\ dbFile \in {Absent, File(OldDb)}
    /\ galaxy = <<>>
    /\ conn = NoConn
    /\ shortname_map = NoMap
    /\ out = <<>>
    /\ pc = "restructure"
    /\ exc = "none"
    /\ idx = 1
    /\ run = 1
    /\ firstRun = NoRun

SpecPipe == InitPipe /\ [][NextPipe]_vars

Spec == SpecPipe

\* the tables of an sf.db
Tables == DOMAIN EmptyDb

\* the two files hold the same rows in every table, whatever their order
SameStore(a, b) ==
    IF a = Absent \/ b = Absent THEN a = b
    ELSE \A t \in Tables : SameBag(a[1][t], b[1][t])

RunEnded == pc \in {"restructure_failed", "create_db_failed", "created_db"}

\* C5: when the second run of the pipeline on the unchanged input has ended,
\* galaxy.json is what the first run left and every table of sf.db holds the
\* rows it held after the first run, none kept twice.
C5_SecondRunSameResult ==
    (run = 2 /\ RunEnded) =>
        /\ galaxyFile = firstRun[1].galaxyFile
        /\ SameStore(dbFile, firstRun[1].dbFile)

\* the second run ended normally on a store of two bodies, the first run
\* having started on an sf.db and a galaxy.json of an earlier run
C5_Witness ==
    /\ run = 2 /\ pc = "created_db"
    /\ Len(dbFile[1].bodies) = 2
    /\ Len(dbFile[1].traits) = 4
    /\ dbFile[1].systems # OldDb.systems
    /\ galaxyFile # OldGalaxy
    /\ firstRun[1].dbFile = dbFile


=============================================================================
